---- MODULE Spec2Model ----
(***************************************************************************)
(* Retraining workflow controller of airflow/dags/retrain_on_drift.py:     *)
(* the DAG election_retrain_on_drift, its nine task instances per DAG run, *)
(* the python callables they execute and the scheduling rules the DAG      *)
(* declares (retries, trigger rules, task dependencies, schedule); and the  *)
(* drift analysis it calls: DriftMonitor of monitoring/drift_monitoring.py *)
(* and DriftDetector of monitoring/detect_drift.py.                        *)
(***************************************************************************)
EXTENDS Integers, FiniteSets, Sequences, TLC

\* Number of DAG runs the schedule creates in a behaviour.
MaxRuns == 2

\* default_args['retries']
retries == 1

Runs == 1..MaxRuns

task_collect  == "collect_recent_data"
task_drift    == "detect_drift"
task_branch   == "check_drift_decision"
task_retrain  == "trigger_retrain"
task_evaluate == "evaluate_new_model"
task_deploy   == "deploy_to_staging"
task_alert    == "send_drift_alert"
task_skip     == "skip_retrain"
task_end      == "end"

Tasks == {task_collect, task_drift, task_branch, task_retrain, task_evaluate,
          task_deploy, task_alert, task_skip, task_end}

\* The tasks of the two branches below check_drift_decision.
RetrainBranch == {task_retrain, task_evaluate, task_deploy, task_alert}
SkipBranch    == {task_skip}

\* Mutant of upstream: deploy_to_staging made to follow trigger_retrain, in
\* parallel with evaluate_new_model.
upstream_parallel_deploy(t) ==
    CASE t = task_collect  -> {}
      [] t = task_drift    -> {task_collect}
      [] t = task_branch   -> {task_drift}
      [] t = task_retrain  -> {task_branch}
      [] t = task_evaluate -> {task_retrain}
      [] t = task_deploy   -> {task_retrain}
      [] t = task_alert    -> {task_deploy}
      [] t = task_skip     -> {task_branch}
      [] t = task_end      -> {task_alert, task_skip}

\* Mutant of upstream: send_drift_alert made to follow trigger_retrain
\* directly, beside the evaluate / deploy chain.
upstream_alert_after_retrain(t) ==
    CASE t = task_collect  -> {}
      [] t = task_drift    -> {task_collect}
      [] t = task_branch   -> {task_drift}
      [] t = task_retrain  -> {task_branch}
      [] t = task_evaluate -> {task_retrain}
      [] t = task_deploy   -> {task_evaluate}
      [] t = task_alert    -> {task_retrain}
      [] t = task_skip     -> {task_branch}
      [] t = task_end      -> {task_alert, task_skip}

\* task dependencies (a >> b makes a an upstream task of b)
upstream(t) ==
    CASE t = task_collect  -> {}
      [] t = task_drift    -> {task_collect}
      [] t = task_branch   -> {task_drift}
      [] t = task_retrain  -> {task_branch}
      [] t = task_evaluate -> {task_retrain}
      [] t = task_deploy   -> {task_evaluate}
      [] t = task_alert    -> {task_deploy}
      [] t = task_skip     -> {task_branch}
      [] t = task_end      -> {task_alert, task_skip}

downstream(t) == {u \in Tasks : t \in upstream(u)}

\* Mutant of trigger_rule: 'end' left with the default trigger rule.
trigger_rule_default(t) == "all_success"

\* trigger_rule of a task: 'end' overrides the default all_success
trigger_rule(t) ==
    IF t = task_end THEN "none_failed_min_one_success" ELSE "all_success"

\* DummyOperator tasks execute nothing
DummyTasks == {task_skip, task_end}

VARIABLES
    nRuns,            \* DAG runs created by the schedule so far
    ti,               \* ti[r][t]: state of task instance t of run r
    try_number,       \* try_number[r][t]: attempts of t started in run r
    xcom,             \* xcom[r]: key 'drift_detected' pushed by detect_drift
    engine_called,    \* engine_called[r]: detect_data_drift was called in run r
    ref_missing,      \* ref_missing[r]: detect_drift found no reference table
    ref_at_start,     \* ref_at_start[r]: the reference existed when r was created
    trigger_result,   \* trigger_result[r]: outcome of trigger_dag in run r
    train_job,        \* train_job[r]: the training DAG run fired by run r
    artifact_missing, \* artifact_missing[r]: deploy_to_staging found no best_model.pkl
    referenceExists,  \* data/features/train_features.csv exists
    modelExists,      \* models/best_model.pkl exists
    EVIDENTLY_AVAILABLE, \* drift_monitoring.EVIDENTLY_AVAILABLE (import succeeded)
    ks_2samp_empty,   \* what the installed scipy does with an empty sample
    instance,         \* the object constructed (its class, its constructor argument)
    drift_threshold,  \* DriftMonitor.drift_threshold
    drift_detected,   \* DriftMonitor.drift_detected
    drift_report,     \* DriftMonitor.drift_report
    alerts,           \* DriftDetector.alerts
    call,             \* the last call made on the instance and how it ended
    n_action_required \* check_drift calls that returned action_required = True

\* State of the DriftMonitor / DriftDetector object and of its module.
monVars == <<EVIDENTLY_AVAILABLE, ks_2samp_empty, instance, drift_threshold,
             drift_detected, drift_report, alerts, call, n_action_required>>

\* State of the DAG, its runs and the files it reads.
dagVars == <<nRuns, ti, try_number, xcom, engine_called, ref_missing,
             ref_at_start, trigger_result, train_job, artifact_missing,
             referenceExists, modelExists>>

vars == <<nRuns, ti, try_number, xcom, engine_called, ref_missing, ref_at_start,
          trigger_result, train_job, artifact_missing, referenceExists, modelExists,
          EVIDENTLY_AVAILABLE, ks_2samp_empty, instance, drift_threshold,
          drift_detected, drift_report, alerts, call, n_action_required>>

(***************************************************************************)
(* Values handled by the drift analysis                                    *)
(***************************************************************************)

\* The columns that occur in the two tables of a call and in feature_columns,
\* one of each kind: in both tables with samples (after dropna) of the same
\* distribution, in both with a shifted distribution, in both with one
\* sample empty, in the reference table only, in the current table only.
Names == {"stable", "shifted", "empty", "ref_only", "cur_only"}

\* reference_data.columns / current_data.columns
reference_columns == Names \ {"cur_only"}
current_columns == Names \ {"ref_only"}

\* Longest feature_columns list passed to a call.
MaxFeatures == 2

\* Most drift metrics of an Evidently report that carry drift_detected = True.
MaxDriftMetrics == 2

\* Longest alert history followed.
MaxAlerts == 2

\* feature_columns: any list of names, repetitions included.
FeatureLists == UNION {[1..n -> Names] : n \in 0..MaxFeatures}

\* feature_columns of the check_drift calls: no feature, or one column.
CheckFeatureLists == {<<>>} \cup {<<col>> : col \in Names}

\* Python's None and the empty dict / list.
None == <<>>
EmptyDict == <<>>

\* Numbers are exact fractions <<numerator, denominator>>, denominator > 0.
RECURSIVE GCD(_, _)
GCD(n, m) == IF m = 0 THEN n ELSE GCD(m, n % m)

\* n / m
Div(n, m) == LET g == GCD(n, m) IN <<n \div g, m \div g>>

\* Mutant of GT: x >= y
GE(x, y) == x[1] * y[2] >= y[1] * x[2]

\* x > y
GT(x, y) == x[1] * y[2] > y[1] * x[2]

Zero == Div(0, 1)

\* bool(x) of a number or None
Truthy(x) == x # None /\ x[1] # 0

\* Mutant of Or: the default is taken only for None.
Or_is_None(x, y) == IF x # None THEN x ELSE y

\* x or y
Or(x, y) == IF Truthy(x) THEN x ELSE y

\* Config.DRIFT_THRESHOLD with DRIFT_THRESHOLD unset in the environment: 0.1
Config_DRIFT_THRESHOLD == Div(1, 10)

\* Values given as drift_threshold to DriftMonitor(...).
ThresholdArgs == {None, Zero, Div(1, 2)}

\* float('nan') among the hundredths used for statistics and p-values.
nan == -1

(***************************************************************************)
(* The DAG and its runs                                                    *)
(***************************************************************************)

TIStates == {"none", "running", "up_for_retry", "success", "failed",
             "upstream_failed", "skipped"}

TypeOK ==
    /\ nRuns \in 0..MaxRuns
    /\ ti \in [Runs -> [Tasks -> TIStates]]
    /\ try_number \in [Runs -> [Tasks -> 0..(retries + 1)]]
    /\ xcom \in [Runs -> {"absent", "True", "False"}]
    /\ engine_called \in [Runs -> BOOLEAN]
    /\ ref_missing \in [Runs -> BOOLEAN]
    /\ ref_at_start \in [Runs -> BOOLEAN]
    /\ trigger_result \in [Runs -> {"none", "ack", "error"}]
    /\ train_job \in [Runs -> {"none", "running", "done"}]
    /\ artifact_missing \in [Runs -> BOOLEAN]
    /\ referenceExists \in BOOLEAN
    /\ modelExists \in BOOLEAN

\* No DriftMonitor or DriftDetector has been constructed.
NoCall == [op |-> "none"]

NotConstructed ==
    /\ EVIDENTLY_AVAILABLE = FALSE
    /\ ks_2samp_empty = "ValueError"
    /\ instance = [class |-> "none"]
    /\ drift_threshold = None
    /\ drift_detected = FALSE
    /\ drift_report = EmptyDict
    /\ alerts = <<>>
    /\ call = NoCall
    /\ n_action_required = 0

Init ==
    /\ nRuns = 0
    /\ ti = [r \in Runs |-> [t \in Tasks |-> "none"]]
    /\ try_number = [r \in Runs |-> [t \in Tasks |-> 0]]
    /\ xcom = [r \in Runs |-> "absent"]
    /\ engine_called = [r \in Runs |-> FALSE]
    /\ ref_missing = [r \in Runs |-> FALSE]
    /\ ref_at_start = [r \in Runs |-> FALSE]
    /\ trigger_result = [r \in Runs |-> "none"]
    /\ train_job = [r \in Runs |-> "none"]
    /\ artifact_missing = [r \in Runs |-> FALSE]
    /\ referenceExists \in BOOLEAN
    /\ modelExists \in BOOLEAN
    /\ NotConstructed

Created(r) == r <= nRuns

Finished(s) == s \in {"success", "failed", "upstream_failed", "skipped"}
FailedState(s) == s \in {"failed", "upstream_failed"}
\* The task's callable has been started at least once.
Started(r, t) == try_number[r][t] > 0

\* Mutant of DepStatus: every task runs as soon as its upstream tasks are
\* finished, whatever their state (trigger rule all_done).
DepStatus_all_done(r, t) ==
    IF \A u \in upstream(t) : Finished(ti[r][u]) THEN "run" ELSE "wait"

\* What the trigger rule of t says about a task instance that has no state
\* yet: "run" (dependencies met), "upstream_failed" or "skipped" (the state
\* to give it without running it), or "wait".
DepStatus(r, t) ==
    LET up == {ti[r][u] : u \in upstream(t)}
        allDone == \A s \in up : Finished(s)
    IN  IF trigger_rule(t) = "all_success"
        THEN IF \E s \in up : FailedState(s) THEN "upstream_failed"
             ELSE IF "skipped" \in up THEN "skipped"
             ELSE IF up \subseteq {"success"} THEN "run"
             ELSE "wait"
        ELSE \* none_failed_min_one_success
             IF \E s \in up : FailedState(s) THEN "upstream_failed"
             ELSE IF up = {"skipped"} THEN "skipped"
             ELSE IF allDone /\ "success" \in up THEN "run"
             ELSE "wait"

\* Mutant of is_eligible_to_retry: one retry too many.
is_eligible_to_retry_off_by_one(r, t) == try_number[r][t] <= retries + 1

\* A failed attempt is retried while try_number <= retries.
is_eligible_to_retry(r, t) == try_number[r][t] <= retries

\* State of a task instance whose callable raised.
StateAfterRaise(r, t) ==
    IF is_eligible_to_retry(r, t) THEN "up_for_retry" ELSE "failed"

SetTI(r, t, s) == ti' = [ti EXCEPT ![r][t] = s]

\* State of the DAG run: decided by the leaf task 'end' once no task
\* instance is unfinished.
DagRunState(r) ==
    IF ~Created(r) THEN "none"
    ELSE IF \E t \in Tasks : ~Finished(ti[r][t]) THEN "running"
    ELSE IF FailedState(ti[r][task_end]) THEN "failed"
    ELSE "success"

RunFinished(r) == DagRunState(r) \in {"success", "failed"}

\* Mutant of Outcome: every failed run is called aborted, whichever step
\* failed.
Outcome_four_cases(r) ==
    IF ~RunFinished(r) THEN "running"
    ELSE IF DagRunState(r) = "failed" THEN "aborted"
    ELSE IF ref_missing[r] THEN "skipped_no_reference"
    ELSE IF xcom[r] = "True" THEN "completed_retrained"
    ELSE IF xcom[r] = "False" THEN "completed_no_drift"
    ELSE "success"

\* The observable outcome of a run, read off what the run leaves behind: the
\* DAG run state, the state of collect_recent_data, the "Reference data not
\* found" line of detect_drift and the verdict it pushed to XCom.
Outcome(r) ==
    IF ~RunFinished(r) THEN "running"
    ELSE IF DagRunState(r) = "failed"
         THEN IF ti[r][task_collect] = "failed" THEN "aborted" ELSE "failed"
    ELSE IF ref_missing[r] THEN "skipped_no_reference"
    ELSE IF xcom[r] = "True" THEN "completed_retrained"
    ELSE IF xcom[r] = "False" THEN "completed_no_drift"
    ELSE "success"

\* Mutant of ScheduleFires: a new run is created only when every earlier run
\* has succeeded (as if the schedule depended on the past).
ScheduleFires_after_success ==
    /\ nRuns < MaxRuns
    /\ \A r \in Runs : Created(r) => DagRunState(r) = "success"
    /\ nRuns' = nRuns + 1
    /\ ref_at_start' = [ref_at_start EXCEPT ![nRuns + 1] = referenceExists]
    /\ UNCHANGED <<ti, try_number, xcom, engine_called, ref_missing,
                   trigger_result, train_job, artifact_missing,
                   referenceExists, modelExists, monVars>>

\* schedule_interval fires: the scheduler creates the next DAG run.  The DAG
\* sets neither max_active_runs nor depends_on_past, so a run still in
\* progress does not hold the next one back.
ScheduleFires ==
    /\ nRuns < MaxRuns
    /\ nRuns' = nRuns + 1
    /\ ref_at_start' = [ref_at_start EXCEPT ![nRuns + 1] = referenceExists]
    /\ UNCHANGED <<ti, try_number, xcom, engine_called, ref_missing,
                   trigger_result, train_job, artifact_missing,
                   referenceExists, modelExists, monVars>>

\* The scheduler gives a task instance whose trigger rule can no longer be
\* met the state upstream_failed or skipped.
MarkNotRun(r, t) ==
    /\ Created(r)
    /\ ti[r][t] = "none"
    /\ DepStatus(r, t) \in {"upstream_failed", "skipped"}
    /\ SetTI(r, t, DepStatus(r, t))
    /\ UNCHANGED <<nRuns, try_number, xcom, engine_called, ref_missing,
                   ref_at_start, trigger_result, train_job, artifact_missing,
                   referenceExists, modelExists, monVars>>

\* A PythonOperator / BranchPythonOperator task instance starts an attempt:
\* first when its dependencies are met, again after retry_delay.
StartTask(r, t) ==
    /\ Created(r)
    /\ t \notin DummyTasks
    /\ \/ ti[r][t] = "none" /\ DepStatus(r, t) = "run"
       \/ ti[r][t] = "up_for_retry"
    /\ SetTI(r, t, "running")
    /\ try_number' = [try_number EXCEPT ![r][t] = @ + 1]
    /\ xcom' = IF t = task_drift THEN [xcom EXCEPT ![r] = "absent"] ELSE xcom
    /\ UNCHANGED <<nRuns, engine_called, ref_missing, ref_at_start,
                   trigger_result, train_job, artifact_missing,
                   referenceExists, modelExists, monVars>>

\* skip_retrain and end are DummyOperators: nothing to execute.
DummyOperator(r, t) ==
    /\ Created(r)
    /\ t \in DummyTasks
    /\ ti[r][t] = "none"
    /\ DepStatus(r, t) = "run"
    /\ SetTI(r, t, "success")
    /\ try_number' = [try_number EXCEPT ![r][t] = @ + 1]
    /\ UNCHANGED <<nRuns, xcom, engine_called, ref_missing, ref_at_start,
                   trigger_result, train_job, artifact_missing,
                   referenceExists, modelExists, monVars>>

\* collect_recent_data(): generates and saves the recent data; any error of
\* the provider or of save_dataset is raised to Airflow.
collect_recent_data(r) ==
    /\ Created(r)
    /\ ti[r][task_collect] = "running"
    /\ \E ok \in BOOLEAN :
         SetTI(r, task_collect,
               IF ok THEN "success" ELSE StateAfterRaise(r, task_collect))
    /\ UNCHANGED <<nRuns, try_number, xcom, engine_called, ref_missing,
                   ref_at_start, trigger_result, train_job, artifact_missing,
                   referenceExists, modelExists, monVars>>

\* Mutant of detect_drift_no_reference: the message is printed but the
\* early return is missing, so the monitor is called on the missing table.
detect_drift_no_reference_no_return(r) ==
    /\ ref_missing' = [ref_missing EXCEPT ![r] = TRUE]
    /\ engine_called' = [engine_called EXCEPT ![r] = TRUE]
    /\ SetTI(r, task_drift, StateAfterRaise(r, task_drift))
    /\ UNCHANGED xcom

\* detect_drift, reference missing: prints "Reference data not found.
\* Skipping drift detection." and returns False before anything is loaded;
\* nothing is pushed to XCom.
detect_drift_no_reference(r) ==
    /\ ref_missing' = [ref_missing EXCEPT ![r] = TRUE]
    /\ SetTI(r, task_drift, "success")
    /\ UNCHANGED <<xcom, engine_called>>

\* detect_drift, reference present.  raise_before: reading or preparing the
\* recent data raised; raise_after: detect_data_drift or save_drift_report
\* raised; True / False: drift_report['drift_detected'], pushed to XCom
\* under the key 'drift_detected' (with 'drift_share') and returned.
detect_drift_with_reference(r) ==
    \E outcome \in {"raise_before", "raise_after", "True", "False"} :
       /\ engine_called' =
            [engine_called EXCEPT ![r] = @ \/ outcome # "raise_before"]
       /\ IF outcome \in {"True", "False"}
          THEN /\ xcom' = [xcom EXCEPT ![r] = outcome]
               /\ SetTI(r, task_drift, "success")
          ELSE /\ UNCHANGED xcom
               /\ SetTI(r, task_drift, StateAfterRaise(r, task_drift))
       /\ UNCHANGED ref_missing

\* detect_drift(**context)
detect_drift(r) ==
    /\ Created(r)
    /\ ti[r][task_drift] = "running"
    /\ IF ~referenceExists
       THEN detect_drift_no_reference(r)
       ELSE detect_drift_with_reference(r)
    /\ UNCHANGED <<nRuns, try_number, ref_at_start, trigger_result, train_job,
                   artifact_missing, referenceExists, modelExists, monVars>>

\* Mutant of check_drift_decision: a missing verdict (None) taken as drift.
check_drift_decision_none_is_drift(r) ==
    IF xcom[r] = "False" THEN task_skip ELSE task_retrain

\* check_drift_decision(**context): the task id to follow.
\* xcom_pull gives None when detect_drift pushed no 'drift_detected'.
check_drift_decision(r) ==
    IF xcom[r] = "True" THEN task_retrain ELSE task_skip

\* BranchPythonOperator: runs check_drift_decision and skips every directly
\* downstream task but the one returned.
BranchPythonOperator(r) ==
    /\ Created(r)
    /\ ti[r][task_branch] = "running"
    /\ ti' = [ti EXCEPT ![r] =
                [t \in Tasks |->
                   IF t = task_branch THEN "success"
                   ELSE IF t \in downstream(task_branch)
                           /\ t # check_drift_decision(r) THEN "skipped"
                   ELSE ti[r][t]]]
    /\ UNCHANGED <<nRuns, try_number, xcom, engine_called, ref_missing,
                   ref_at_start, trigger_result, train_job, artifact_missing,
                   referenceExists, modelExists, monVars>>

\* Mutant of trigger_retrain: no try/except around trigger_dag.
trigger_retrain_no_except(r) ==
    /\ Created(r)
    /\ ti[r][task_retrain] = "running"
    /\ \E fired \in BOOLEAN :
         /\ trigger_result' =
              [trigger_result EXCEPT ![r] = IF fired THEN "ack" ELSE "error"]
         /\ train_job' =
              [train_job EXCEPT ![r] = IF fired THEN "running" ELSE @]
         /\ SetTI(r, task_retrain,
                  IF fired THEN "success" ELSE StateAfterRaise(r, task_retrain))
    /\ UNCHANGED <<nRuns, try_number, xcom, engine_called, ref_missing,
                   ref_at_start, artifact_missing, referenceExists, modelExists, monVars>>

\* trigger_retrain(): trigger_dag fires the training DAG and returns at
\* once; an exception of trigger_dag is caught and printed.
trigger_retrain(r) ==
    /\ Created(r)
    /\ ti[r][task_retrain] = "running"
    /\ \E fired \in BOOLEAN :
         /\ trigger_result' =
              [trigger_result EXCEPT ![r] = IF fired THEN "ack" ELSE "error"]
         /\ train_job' =
              [train_job EXCEPT ![r] = IF fired THEN "running" ELSE @]
    /\ SetTI(r, task_retrain, "success")
    /\ UNCHANGED <<nRuns, try_number, xcom, engine_called, ref_missing,
                   ref_at_start, artifact_missing, referenceExists, modelExists, monVars>>

\* The training DAG run fired by run r completes: it has written the
\* feature tables and models/best_model.pkl.
TrainingCompletes(r) ==
    /\ train_job[r] = "running"
    /\ train_job' = [train_job EXCEPT ![r] = "done"]
    /\ referenceExists' = TRUE
    /\ modelExists' = TRUE
    /\ UNCHANGED <<nRuns, ti, try_number, xcom, engine_called, ref_missing,
                   ref_at_start, trigger_result, artifact_missing, monVars>>

\* evaluate_new_model(): evaluate_main() on whatever best_model.pkl is on
\* disk; its exceptions are raised to Airflow.
evaluate_new_model(r) ==
    /\ Created(r)
    /\ ti[r][task_evaluate] = "running"
    /\ \E ok \in BOOLEAN :
         SetTI(r, task_evaluate,
               IF ok THEN "success" ELSE StateAfterRaise(r, task_evaluate))
    /\ UNCHANGED <<nRuns, try_number, xcom, engine_called, ref_missing,
                   ref_at_start, trigger_result, train_job, artifact_missing,
                   referenceExists, modelExists, monVars>>

\* deploy_to_staging(): shutil.copy raises FileNotFoundError when
\* models/best_model.pkl does not exist; nothing catches it.
deploy_to_staging(r) ==
    /\ Created(r)
    /\ ti[r][task_deploy] = "running"
    /\ artifact_missing' = [artifact_missing EXCEPT ![r] = @ \/ ~modelExists]
    /\ SetTI(r, task_deploy,
             IF modelExists THEN "success" ELSE StateAfterRaise(r, task_deploy))
    /\ UNCHANGED <<nRuns, try_number, xcom, engine_called, ref_missing,
                   ref_at_start, trigger_result, train_job,
                   referenceExists, modelExists, monVars>>

\* send_drift_alert(**context): formats drift_share and prints the message;
\* formatting raises when no drift_share was pushed.
send_drift_alert(r) ==
    /\ Created(r)
    /\ ti[r][task_alert] = "running"
    /\ SetTI(r, task_alert,
             IF xcom[r] = "absent" THEN StateAfterRaise(r, task_alert)
             ELSE "success")
    /\ UNCHANGED <<nRuns, try_number, xcom, engine_called, ref_missing,
                   ref_at_start, trigger_result, train_job, artifact_missing,
                   referenceExists, modelExists, monVars>>

Next ==
    \/ ScheduleFires
    \/ \E r \in Runs, t \in Tasks : MarkNotRun(r, t)
    \/ \E r \in Runs, t \in Tasks : StartTask(r, t)
    \/ \E r \in Runs, t \in Tasks : DummyOperator(r, t)
    \/ \E r \in Runs : collect_recent_data(r)
    \/ \E r \in Runs : detect_drift(r)
    \/ \E r \in Runs : BranchPythonOperator(r)
    \/ \E r \in Runs : trigger_retrain(r)
    \/ \E r \in Runs : TrainingCompletes(r)
    \/ \E r \in Runs : evaluate_new_model(r)
    \/ \E r \in Runs : deploy_to_staging(r)
    \/ \E r \in Runs : send_drift_alert(r)

Spec == Init /\ [][Next]_vars

\* The scheduler loop keeps scheduling what can be scheduled and every
\* started callable returns or raises.
FairSpec == Spec /\ WF_vars(Next)

(***************************************************************************)
(* DriftMonitor (monitoring/drift_monitoring.py) and DriftDetector         *)
(* (monitoring/detect_drift.py)                                            *)
(***************************************************************************)

\* ks_2samp(reference_data[col].dropna(), current_data[col].dropna()),
\* statistic and p-value in hundredths.  With an empty sample scipy raises
\* ValueError or returns (nan, nan), depending on the version installed.
ks_2samp(col) ==
    IF col = "empty"
    THEN IF ks_2samp_empty = "ValueError"
         THEN [raised |-> "ValueError"]
         ELSE [raised |-> "", statistic |-> nan, p_value |-> nan]
    ELSE IF col = "shifted"
         THEN [raised |-> "", statistic |-> 100, p_value |-> 0]
         ELSE [raised |-> "", statistic |-> 0, p_value |-> 100]

\* p_value < 0.05 (False for nan)
significant(p_value) == p_value # nan /\ p_value < 5

\* The loop of _simple_drift_detection from feature_columns[i] on.
RECURSIVE simple_loop(_, _, _, _)
simple_loop(feature_columns, i, drifted_features, drift_scores) ==
    IF i > Len(feature_columns)
    THEN [raised |-> "", drifted_features |-> drifted_features,
          drift_scores |-> drift_scores]
    ELSE LET col == feature_columns[i] IN
         IF col \notin reference_columns \/ col \notin current_columns
         THEN simple_loop(feature_columns, i + 1, drifted_features,
                          drift_scores)
         ELSE LET ks == ks_2samp(col) IN
              IF ks.raised # ""
              THEN [raised |-> ks.raised]
              ELSE simple_loop(feature_columns, i + 1,
                      IF significant(ks.p_value)
                      THEN Append(drifted_features, col)
                      ELSE drifted_features,
                      [c \in DOMAIN drift_scores \cup {col} |->
                         IF c = col
                         THEN [statistic |-> ks.statistic,
                               p_value |-> ks.p_value]
                         ELSE drift_scores[c]])

\* Mutant of simple_drift_detection: drifted_features starts from the list
\* of the stored report instead of from [].
simple_drift_detection_accumulates(threshold, feature_columns) ==
    LET before == IF "drifted_features" \in DOMAIN drift_report
                  THEN drift_report.drifted_features ELSE <<>>
        loop == simple_loop(feature_columns, 1, before, EmptyDict) IN
    IF loop.raised # ""
    THEN [raised |-> loop.raised]
    ELSE LET drift_share ==
                IF Len(feature_columns) > 0
                THEN Div(Len(loop.drifted_features), Len(feature_columns))
                ELSE Zero
         IN [raised |-> "",
             report |->
               [timestamp |-> "utcnow",
                drift_detected |-> GT(drift_share, threshold),
                drift_share |-> drift_share,
                n_drifted_features |-> Len(loop.drifted_features),
                n_features |-> Len(feature_columns),
                drifted_features |-> loop.drifted_features,
                drift_scores |-> loop.drift_scores,
                threshold |-> threshold,
                method |-> "ks_test"]]

\* DriftMonitor._simple_drift_detection: what it raises, or the report it
\* stores and returns.
simple_drift_detection(threshold, feature_columns) ==
    LET loop == simple_loop(feature_columns, 1, <<>>, EmptyDict) IN
    IF loop.raised # ""
    THEN [raised |-> loop.raised]
    ELSE LET drift_share ==
                IF Len(feature_columns) > 0
                THEN Div(Len(loop.drifted_features), Len(feature_columns))
                ELSE Zero
         IN [raised |-> "",
             report |->
               [timestamp |-> "utcnow",
                drift_detected |-> GT(drift_share, threshold),
                drift_share |-> drift_share,
                n_drifted_features |-> Len(loop.drifted_features),
                n_features |-> Len(feature_columns),
                drifted_features |-> loop.drifted_features,
                drift_scores |-> loop.drift_scores,
                threshold |-> threshold,
                method |-> "ks_test"]]

\* What the Evidently part of detect_data_drift can come to: selecting
\* feature_columns raises KeyError when a name is missing from a table;
\* otherwise Report.run raises, or the report has some number of drift
\* metrics whose result says drift_detected.
EvidentlyOutcomes(feature_columns) ==
    IF \E i \in 1..Len(feature_columns) :
          \/ feature_columns[i] \notin reference_columns
          \/ feature_columns[i] \notin current_columns
    THEN {[raised |-> "KeyError"]}
    ELSE {[raised |-> "Exception"]}
         \cup {[raised |-> "", n_drifted |-> n] : n \in 0..MaxDriftMetrics}

\* The report built by detect_data_drift from the Evidently result.
evidently_report(threshold, feature_columns, n_drifted) ==
    LET drift_share ==
           IF Len(feature_columns) > 0
           THEN Div(n_drifted, Len(feature_columns))
           ELSE Zero
    IN [timestamp |-> "utcnow",
        drift_detected |-> GT(drift_share, threshold),
        drift_share |-> drift_share,
        n_drifted_features |-> n_drifted,
        n_features |-> Len(feature_columns),
        threshold |-> threshold]

\* Mutant of detect_data_drift_result: no except clause around the Evidently
\* part.
detect_data_drift_result_no_except(threshold, feature_columns, ev) ==
    IF ~EVIDENTLY_AVAILABLE
    THEN simple_drift_detection(threshold, feature_columns)
    ELSE IF ev.raised # ""
         THEN [raised |-> ev.raised]
         ELSE [raised |-> "",
               report |-> evidently_report(threshold, feature_columns,
                                           ev.n_drifted)]

\* DriftMonitor.detect_data_drift with the Evidently part coming to ev.
detect_data_drift_result(threshold, feature_columns, ev) ==
    IF ~EVIDENTLY_AVAILABLE
    THEN simple_drift_detection(threshold, feature_columns)
    ELSE IF ev.raised # ""
         THEN simple_drift_detection(threshold, feature_columns)
         ELSE [raised |-> "",
               report |-> evidently_report(threshold, feature_columns,
                                           ev.n_drifted)]

\* The Evidently outcomes to consider for a call.
EvidentlyChoices(feature_columns) ==
    IF EVIDENTLY_AVAILABLE
    THEN EvidentlyOutcomes(feature_columns)
    ELSE {[raised |-> "ImportError"]}

\* Mutant of MonitorStores: the flag is cleared when the call starts.
MonitorStores_clears_first(res) ==
    IF res.raised = ""
    THEN /\ drift_detected' = res.report.drift_detected
         /\ drift_report' = res.report
    ELSE /\ drift_detected' = FALSE
         /\ UNCHANGED drift_report

\* Both strategies assign self.drift_detected and self.drift_report only
\* after everything that can raise.
MonitorStores(res) ==
    IF res.raised = ""
    THEN /\ drift_detected' = res.report.drift_detected
         /\ drift_report' = res.report
    ELSE UNCHANGED <<drift_detected, drift_report>>

\* DriftMonitor(drift_threshold)
DriftMonitor_init(arg) ==
    /\ instance.class = "none"
    /\ instance' = [class |-> "DriftMonitor", drift_threshold |-> arg]
    /\ drift_threshold' = Or(arg, Config_DRIFT_THRESHOLD)
    /\ drift_detected' = FALSE
    /\ drift_report' = EmptyDict
    /\ call' = [op |-> "__init__"]
    /\ UNCHANGED <<EVIDENTLY_AVAILABLE, ks_2samp_empty, alerts,
                   n_action_required, dagVars>>

\* DriftDetector(): its monitor is DriftMonitor(), its alerts are [].
DriftDetector_init ==
    /\ instance.class = "none"
    /\ instance' = [class |-> "DriftDetector", drift_threshold |-> None]
    /\ drift_threshold' = Or(None, Config_DRIFT_THRESHOLD)
    /\ drift_detected' = FALSE
    /\ drift_report' = EmptyDict
    /\ alerts' = <<>>
    /\ call' = [op |-> "__init__"]
    /\ UNCHANGED <<EVIDENTLY_AVAILABLE, ks_2samp_empty, n_action_required,
                   dagVars>>

\* DriftMonitor.detect_data_drift(reference_data, current_data, feature_columns)
\* (on a DriftMonitor, or on the monitor of a DriftDetector); again: the
\* call before it was the same call.
detect_data_drift(feature_columns) ==
    /\ instance.class # "none"
    /\ \E ev \in EvidentlyChoices(feature_columns) :
          LET res == detect_data_drift_result(drift_threshold,
                                              feature_columns, ev)
          IN /\ MonitorStores(res)
             /\ call' = [op |-> "detect_data_drift",
                         feature_columns |-> feature_columns,
                         evidently |-> ev, raised |-> res.raised,
                         ret |-> IF res.raised = "" THEN res.report ELSE None,
                         again |-> /\ call.op = "detect_data_drift"
                                   /\ call.feature_columns = feature_columns]
    /\ UNCHANGED <<EVIDENTLY_AVAILABLE, ks_2samp_empty, instance,
                   drift_threshold, alerts, n_action_required, dagVars>>

\* Mutant of create_alert: severity high from 0.3 on.
create_alert_ge(report) ==
    [timestamp |-> "utcnow",
     severity |-> IF ~GT(Div(3, 10), report.drift_share)
                  THEN "high" ELSE "medium",
     type |-> "data_drift",
     message |-> [n_drifted_features |-> report.n_drifted_features,
                  n_features |-> report.n_features],
     details |-> report,
     action |-> "Model retraining recommended"]

\* DriftDetector.create_alert(drift_report); the message is kept as the two
\* numbers it is formatted from.
create_alert(report) ==
    [timestamp |-> "utcnow",
     severity |-> IF GT(report.drift_share, Div(3, 10))
                  THEN "high" ELSE "medium",
     type |-> "data_drift",
     message |-> [n_drifted_features |-> report.n_drifted_features,
                  n_features |-> report.n_features],
     details |-> report,
     action |-> "Model retraining recommended"]

\* Mutant of check_drift: the alert is appended twice.
check_drift_appends_twice(feature_columns) ==
    /\ instance.class = "DriftDetector"
    /\ \E csv_ok \in BOOLEAN, ev \in EvidentlyChoices(feature_columns) :
          LET res == IF csv_ok
                     THEN detect_data_drift_result(drift_threshold,
                                                   feature_columns, ev)
                     ELSE [raised |-> "FileNotFoundError"]
              history == IF res.raised = "" /\ res.report.drift_detected
                         THEN Append(Append(alerts, create_alert(res.report)),
                                     create_alert(res.report))
                         ELSE alerts
          IN /\ Len(history) <= MaxAlerts
             /\ MonitorStores(res)
             /\ alerts' = history
             /\ n_action_required' =
                   IF res.raised = "" /\ res.report.drift_detected
                   THEN n_action_required + 1
                   ELSE n_action_required
             /\ call' = [op |-> "check_drift",
                         feature_columns |-> feature_columns,
                         evidently |-> ev, raised |-> res.raised,
                         ret |-> IF res.raised = ""
                                 THEN [drift_report |-> res.report,
                                       alerts |-> history,
                                       action_required |->
                                          res.report.drift_detected]
                                 ELSE None]
    /\ UNCHANGED <<EVIDENTLY_AVAILABLE, ks_2samp_empty, instance,
                   drift_threshold, dagVars>>

\* Mutant of check_drift: the history keeps the latest alert only.
check_drift_keeps_last(feature_columns) ==
    /\ instance.class = "DriftDetector"
    /\ \E csv_ok \in BOOLEAN, ev \in EvidentlyChoices(feature_columns) :
          LET res == IF csv_ok
                     THEN detect_data_drift_result(drift_threshold,
                                                   feature_columns, ev)
                     ELSE [raised |-> "FileNotFoundError"]
              history == IF res.raised = "" /\ res.report.drift_detected
                         THEN <<create_alert(res.report)>>
                         ELSE alerts
          IN /\ Len(history) <= MaxAlerts
             /\ MonitorStores(res)
             /\ alerts' = history
             /\ n_action_required' =
                   IF res.raised = "" /\ res.report.drift_detected
                   THEN n_action_required + 1
                   ELSE n_action_required
             /\ call' = [op |-> "check_drift",
                         feature_columns |-> feature_columns,
                         evidently |-> ev, raised |-> res.raised,
                         ret |-> IF res.raised = ""
                                 THEN [drift_report |-> res.report,
                                       alerts |-> history,
                                       action_required |->
                                          res.report.drift_detected]
                                 ELSE None]
    /\ UNCHANGED <<EVIDENTLY_AVAILABLE, ks_2samp_empty, instance,
                   drift_threshold, dagVars>>

\* Mutant of check_drift: only the alerts of this call are returned.
check_drift_returns_new(feature_columns) ==
    /\ instance.class = "DriftDetector"
    /\ \E csv_ok \in BOOLEAN, ev \in EvidentlyChoices(feature_columns) :
          LET res == IF csv_ok
                     THEN detect_data_drift_result(drift_threshold,
                                                   feature_columns, ev)
                     ELSE [raised |-> "FileNotFoundError"]
              history == IF res.raised = "" /\ res.report.drift_detected
                         THEN Append(alerts, create_alert(res.report))
                         ELSE alerts
          IN /\ Len(history) <= MaxAlerts
             /\ MonitorStores(res)
             /\ alerts' = history
             /\ n_action_required' =
                   IF res.raised = "" /\ res.report.drift_detected
                   THEN n_action_required + 1
                   ELSE n_action_required
             /\ call' = [op |-> "check_drift",
                         feature_columns |-> feature_columns,
                         evidently |-> ev, raised |-> res.raised,
                         ret |-> IF res.raised = ""
                                 THEN [drift_report |-> res.report,
                                       alerts |->
                                          SubSeq(history, Len(alerts) + 1,
                                                 Len(history)),
                                       action_required |->
                                          res.report.drift_detected]
                                 ELSE None]
    /\ UNCHANGED <<EVIDENTLY_AVAILABLE, ks_2samp_empty, instance,
                   drift_threshold, dagVars>>

\* Mutant of check_drift: an alert for every report, drift or not.
check_drift_alerts_always(feature_columns) ==
    /\ instance.class = "DriftDetector"
    /\ \E csv_ok \in BOOLEAN, ev \in EvidentlyChoices(feature_columns) :
          LET res == IF csv_ok
                     THEN detect_data_drift_result(drift_threshold,
                                                   feature_columns, ev)
                     ELSE [raised |-> "FileNotFoundError"]
              history == IF res.raised = ""
                         THEN Append(alerts, create_alert(res.report))
                         ELSE alerts
          IN /\ Len(history) <= MaxAlerts
             /\ MonitorStores(res)
             /\ alerts' = history
             /\ n_action_required' =
                   IF res.raised = "" /\ res.report.drift_detected
                   THEN n_action_required + 1
                   ELSE n_action_required
             /\ call' = [op |-> "check_drift",
                         feature_columns |-> feature_columns,
                         evidently |-> ev, raised |-> res.raised,
                         ret |-> IF res.raised = ""
                                 THEN [drift_report |-> res.report,
                                       alerts |-> history,
                                       action_required |->
                                          res.report.drift_detected]
                                 ELSE None]
    /\ UNCHANGED <<EVIDENTLY_AVAILABLE, ks_2samp_empty, instance,
                   drift_threshold, dagVars>>

\* DriftDetector.check_drift(reference_data_path, current_data_path,
\* feature_columns); csv_ok: both pd.read_csv calls succeed.
check_drift(feature_columns) ==
    /\ instance.class = "DriftDetector"
    /\ \E csv_ok \in BOOLEAN, ev \in EvidentlyChoices(feature_columns) :
          LET res == IF csv_ok
                     THEN detect_data_drift_result(drift_threshold,
                                                   feature_columns, ev)
                     ELSE [raised |-> "FileNotFoundError"]
              history == IF res.raised = "" /\ res.report.drift_detected
                         THEN Append(alerts, create_alert(res.report))
                         ELSE alerts
          IN /\ Len(history) <= MaxAlerts
             /\ MonitorStores(res)
             /\ alerts' = history
             /\ n_action_required' =
                   IF res.raised = "" /\ res.report.drift_detected
                   THEN n_action_required + 1
                   ELSE n_action_required
             /\ call' = [op |-> "check_drift",
                         feature_columns |-> feature_columns,
                         evidently |-> ev, raised |-> res.raised,
                         ret |-> IF res.raised = ""
                                 THEN [drift_report |-> res.report,
                                       alerts |-> history,
                                       action_required |->
                                          res.report.drift_detected]
                                 ELSE None]
    /\ UNCHANGED <<EVIDENTLY_AVAILABLE, ks_2samp_empty, instance,
                   drift_threshold, dagVars>>

\* Reports handed to create_alert directly: n of m features drifted.
AlertReports ==
    {[drift_detected |-> TRUE, drift_share |-> Div(nm[1], nm[2]),
      n_drifted_features |-> nm[1], n_features |-> nm[2]] :
        nm \in {<<3, 10>>, <<4, 10>>, <<1, 4>>}}

\* A caller uses DriftDetector.create_alert(report) on its own.
call_create_alert(report) ==
    /\ instance.class = "DriftDetector"
    /\ call' = [op |-> "create_alert", report |-> report, raised |-> "",
                ret |-> create_alert(report)]
    /\ UNCHANGED <<EVIDENTLY_AVAILABLE, ks_2samp_empty, instance,
                   drift_threshold, drift_detected, drift_report, alerts,
                   n_action_required, dagVars>>

\* Pairs of prediction arrays handed to detect_prediction_drift: of the same
\* distribution, of a shifted one, or with an empty array.
PredictionPairs == {"stable", "shifted", "empty"}

\* Mutant of detect_prediction_drift: the verdict is also stored in
\* self.drift_detected.
detect_prediction_drift_stores(predictions) ==
    /\ instance.class # "none"
    /\ LET ks == ks_2samp(predictions) IN
       /\ drift_detected' =
             IF ks.raised = "" THEN significant(ks.p_value) ELSE drift_detected
       /\ call' = IF ks.raised # ""
                  THEN [op |-> "detect_prediction_drift",
                        predictions |-> predictions,
                        raised |-> ks.raised, ret |-> None]
                  ELSE [op |-> "detect_prediction_drift",
                        predictions |-> predictions, raised |-> "",
                        ret |-> [timestamp |-> "utcnow",
                                 ks_statistic |-> ks.statistic,
                                 ks_p_value |-> ks.p_value,
                                 drift_detected |-> significant(ks.p_value),
                                 reference_distribution |-> "value_counts",
                                 current_distribution |-> "value_counts"]]
    /\ UNCHANGED <<EVIDENTLY_AVAILABLE, ks_2samp_empty, instance,
                   drift_threshold, drift_report, alerts,
                   n_action_required, dagVars>>

\* DriftMonitor.detect_prediction_drift(reference_predictions,
\* current_predictions): ks_2samp on the two arrays; the report is returned
\* and nothing is assigned to self.
detect_prediction_drift(predictions) ==
    /\ instance.class # "none"
    /\ LET ks == ks_2samp(predictions) IN
       call' = IF ks.raised # ""
               THEN [op |-> "detect_prediction_drift",
                     predictions |-> predictions,
                     raised |-> ks.raised, ret |-> None]
               ELSE [op |-> "detect_prediction_drift",
                     predictions |-> predictions, raised |-> "",
                     ret |-> [timestamp |-> "utcnow",
                              ks_statistic |-> ks.statistic,
                              ks_p_value |-> ks.p_value,
                              drift_detected |-> significant(ks.p_value),
                              reference_distribution |-> "value_counts",
                              current_distribution |-> "value_counts"]]
    /\ UNCHANGED <<EVIDENTLY_AVAILABLE, ks_2samp_empty, instance,
                   drift_threshold, drift_detected, drift_report, alerts,
                   n_action_required, dagVars>>

\* DriftMonitor.should_retrain()
should_retrain == drift_detected

\* Mutant of export_metrics_for_prometheus: no early return for an empty
\* report.
export_metrics_no_guard ==
    [drift_detected |-> IF drift_detected THEN 1 ELSE 0,
     drift_share |-> IF "drift_share" \in DOMAIN drift_report
                     THEN drift_report.drift_share ELSE Zero,
     n_drifted_features |-> IF "n_drifted_features" \in DOMAIN drift_report
                            THEN drift_report.n_drifted_features ELSE 0]

\* Mutant of export_metrics_for_prometheus: drift_share and
\* n_drifted_features read from the first alert of the history.
export_metrics_from_history ==
    IF drift_report = EmptyDict
    THEN EmptyDict
    ELSE LET report == IF alerts # <<>> THEN alerts[1].details
                       ELSE drift_report
         IN [drift_detected |-> IF drift_detected THEN 1 ELSE 0,
             drift_share |-> report.drift_share,
             n_drifted_features |-> report.n_drifted_features]

\* DriftDetector.export_metrics_for_prometheus()
export_metrics_for_prometheus ==
    IF drift_report = EmptyDict
    THEN EmptyDict
    ELSE [drift_detected |-> IF drift_detected THEN 1 ELSE 0,
          drift_share |-> IF "drift_share" \in DOMAIN drift_report
                          THEN drift_report.drift_share ELSE Zero,
          n_drifted_features |->
             IF "n_drifted_features" \in DOMAIN drift_report
             THEN drift_report.n_drifted_features ELSE 0]

\* The DAG is not running while the monitor is exercised on its own.
DagIdle ==
    /\ nRuns = 0
    /\ ti = [r \in Runs |-> [t \in Tasks |-> "none"]]
    /\ try_number = [r \in Runs |-> [t \in Tasks |-> 0]]
    /\ xcom = [r \in Runs |-> "absent"]
    /\ engine_called = [r \in Runs |-> FALSE]
    /\ ref_missing = [r \in Runs |-> FALSE]
    /\ ref_at_start = [r \in Runs |-> FALSE]
    /\ trigger_result = [r \in Runs |-> "none"]
    /\ train_job = [r \in Runs |-> "none"]
    /\ artifact_missing = [r \in Runs |-> FALSE]
    /\ referenceExists = TRUE
    /\ modelExists = TRUE

\* The module has been imported (Evidently found or not, some scipy
\* installed); nothing has been constructed yet.
InitMonitor ==
    /\ DagIdle
    /\ EVIDENTLY_AVAILABLE \in BOOLEAN
    /\ ks_2samp_empty \in {"ValueError", "nan"}
    /\ instance = [class |-> "none"]
    /\ drift_threshold = None
    /\ drift_detected = FALSE
    /\ drift_report = EmptyDict
    /\ alerts = <<>>
    /\ call = NoCall
    /\ n_action_required = 0

\* A DriftMonitor is constructed and used directly.
NextMonitor ==
    \/ \E arg \in ThresholdArgs : DriftMonitor_init(arg)
    \/ \E f \in FeatureLists : detect_data_drift(f)
    \/ \E p \in PredictionPairs : detect_prediction_drift(p)

SpecMonitor == InitMonitor /\ [][NextMonitor]_vars

\* A DriftDetector is constructed and used.
NextDetector ==
    \/ DriftDetector_init
    \/ \E f \in CheckFeatureLists : check_drift(f)
    \/ \E f \in CheckFeatureLists : detect_data_drift(f)
    \/ \E p \in PredictionPairs : detect_prediction_drift(p)
    \/ \E r \in AlertReports : call_create_alert(r)

SpecDetector == InitMonitor /\ [][NextDetector]_vars

(***************************************************************************)
(* Properties of the retraining workflow                                   *)
(***************************************************************************)

\* Some task of the set B has been started in run r.
Executed(r, B) == \E t \in B : Started(r, t)

\* C1: in every run whose check_drift_decision has run, at most one of the
\* two branches is ever executed and, once the run has finished, exactly
\* one; the Retraining-branch is the one executed iff the verdict recorded
\* for the run ('drift_detected' in XCom) is True; no task of the other
\* branch is ever started: its first task is skipped by the branch operator.
C1_ExactlyOneBranch ==
    \A r \in Runs :
       /\ ~(Executed(r, RetrainBranch) /\ Executed(r, SkipBranch))
       /\ Executed(r, RetrainBranch) =>
             ti[r][task_branch] = "success" /\ xcom[r] = "True"
       /\ Executed(r, SkipBranch) =>
             ti[r][task_branch] = "success" /\ xcom[r] # "True"
       /\ ti[r][task_branch] = "success" =>
             /\ xcom[r] = "True" => ti[r][task_skip] = "skipped"
             /\ xcom[r] # "True" => ti[r][task_retrain] = "skipped"
             /\ RunFinished(r) =>
                   (Executed(r, RetrainBranch) <=> xcom[r] = "True")
                   /\ (Executed(r, SkipBranch) <=> xcom[r] # "True")

C1_Witness ==
    \E r \in Runs :
       /\ xcom[r] = "True"
       /\ ti[r][task_alert] = "success"
       /\ ti[r][task_skip] = "skipped"
       /\ RunFinished(r)

\* C2 as stated: every finished run that was started when no reference
\* table existed has outcome skipped_no_reference and never called
\* detect_data_drift.
C2_AsStated ==
    \A r \in Runs :
       (Created(r) /\ ~ref_at_start[r] /\ RunFinished(r)) =>
          Outcome(r) = "skipped_no_reference" /\ ~engine_called[r]

\* C2 (amended): a run whose detect_drift step finds no reference table
\* never calls detect_data_drift, records no verdict, succeeds at its first
\* attempt and, once finished, has outcome skipped_no_reference (the DAG run
\* succeeded); and a run started without a reference table that has not
\* reached detect_drift has not called detect_data_drift either.
C2_MissingReference ==
    \A r \in Runs :
       /\ ref_missing[r] =>
             /\ ~engine_called[r]
             /\ xcom[r] = "absent"
             /\ ti[r][task_drift] = "success"
             /\ try_number[r][task_drift] = 1
             /\ RunFinished(r) =>
                   DagRunState(r) = "success"
                   /\ Outcome(r) = "skipped_no_reference"
       /\ (~Started(r, task_drift)) => ~engine_called[r]

C2_Witness ==
    \E r \in Runs :
       ref_missing[r] /\ ~ref_at_start[r] /\ RunFinished(r)
       /\ Outcome(r) = "skipped_no_reference"

C4_Join ==
    \A r \in Runs :
       LET up == {ti[r][u] : u \in {task_alert, task_skip}}
           joinable == /\ \A s \in up : Finished(s)
                       /\ ~\E s \in up : FailedState(s)
                       /\ "success" \in up
       IN
       /\ ti[r][task_skip] = "success" =>
             /\ ~Executed(r, RetrainBranch)
             /\ ti[r][task_end] \in {"none", "success"}
             /\ RunFinished(r) => DagRunState(r) = "success"
             /\ ~(Outcome(r) \in {"aborted", "failed"})
       /\ ti[r][task_end] = "success" => joinable
       /\ (joinable /\ ti[r][task_end] = "none") =>
             ENABLED DummyOperator(r, task_end)
       /\ joinable => ti[r][task_end] \in {"none", "success"}
       /\ ti[r][task_end] = "upstream_failed" => \E s \in up : FailedState(s)
       /\ (ti[r][task_skip] = "success" /\ ~RunFinished(r)) =>
             \/ ENABLED DummyOperator(r, task_end)
             \/ \E t \in RetrainBranch : ENABLED MarkNotRun(r, t)

\* The leads-to form of the first part of C4, for FairSpec.
C4_JoinEventually ==
    \A r \in Runs :
       (ti[r][task_skip] = "success") ~> (ti[r][task_end] = "success")

C4_Witness ==
    \E r \in Runs :
       /\ ti[r][task_skip] = "success"
       /\ ti[r][task_alert] = "skipped"
       /\ ti[r][task_end] = "success"
       /\ xcom[r] = "False"

\* Runs in progress: created and with some task instance unfinished.
InProgress == {r \in Runs : DagRunState(r) = "running"}

\* C5 as stated: at every moment at most one run is in progress.
C5_NoOverlap == Cardinality(InProgress) <= 1

\* The state order of the workflow: each pair <<a, b>> says step b comes
\* directly after step a.
StepOrder ==
    {<<task_collect, task_drift>>, <<task_drift, task_branch>>,
     <<task_branch, task_retrain>>, <<task_retrain, task_evaluate>>,
     <<task_evaluate, task_deploy>>, <<task_deploy, task_alert>>,
     <<task_branch, task_skip>>}

\* C6: within one run a step is started only after its predecessor in the
\* state order has finished successfully (collect, detect, decide, then
\* the chosen branch; on the Retraining-branch trigger, evaluate, deploy,
\* notify); 'end' runs only after both branches are finished; and no two
\* steps of a run are ever running at once.
C6_StrictOrder ==
    \A r \in Runs :
       /\ \A p \in StepOrder : Started(r, p[2]) => ti[r][p[1]] = "success"
       /\ Started(r, task_end) =>
             /\ Finished(ti[r][task_alert]) /\ Finished(ti[r][task_skip])
             /\ "success" \in {ti[r][task_alert], ti[r][task_skip]}
       /\ Cardinality({t \in Tasks : ti[r][t] \in {"running", "up_for_retry"}}) <= 1

C6_Witness ==
    \E r \in Runs :
       /\ \A t \in {task_collect, task_drift, task_branch} \cup RetrainBranch :
             ti[r][t] = "success"
       /\ ti[r][task_end] = "success"

\* C7 as stated: evaluate_new_model and deploy_to_staging of a run never
\* start before the training job fired by that run's trigger_retrain has
\* completed.
C7_WaitsForTraining ==
    \A r \in Runs :
       (Started(r, task_evaluate) \/ Started(r, task_deploy)) =>
          train_job[r] # "running"

\* C8: when trigger_dag raises, the trigger_retrain task still succeeds at
\* its first attempt and is never retried; evaluate_new_model is not held
\* back (it can start as soon as the trigger task is done); and if the run
\* then fails, a later step (evaluate, deploy or notify) is the one that
\* failed: with none of them failing the run ends in success.
C8_TriggerErrorNotFatal ==
    \A r \in Runs :
       /\ ti[r][task_retrain] \notin {"up_for_retry", "failed"}
       /\ try_number[r][task_retrain] <= 1
       /\ trigger_result[r] = "error" =>
             /\ ti[r][task_retrain] = "success"
             /\ train_job[r] = "none"
             /\ ti[r][task_evaluate] \notin {"upstream_failed", "skipped"}
             /\ ti[r][task_evaluate] = "none" =>
                   ENABLED StartTask(r, task_evaluate)
             /\ RunFinished(r) =>
                   \/ DagRunState(r) = "success" /\ ti[r][task_alert] = "success"
                   \/ \E t \in {task_evaluate, task_deploy, task_alert} :
                         ti[r][t] = "failed"

C8_Witness ==
    \E r \in Runs :
       /\ trigger_result[r] = "error"
       /\ ti[r][task_alert] = "success"
       /\ ti[r][task_end] = "success"

\* C9: collect_recent_data is attempted at most 1 + retries times in a run;
\* it waits in up_for_retry between attempts, only while attempts are left;
\* it is failed only when every attempt has failed, and then the finished
\* run is failed with outcome aborted.
C9_BoundedRetry ==
    \A r \in Runs :
       /\ try_number[r][task_collect] <= 1 + retries
       /\ ti[r][task_collect] = "up_for_retry" =>
             try_number[r][task_collect] \in 1..retries
       /\ ti[r][task_collect] = "failed" =>
             /\ try_number[r][task_collect] = 1 + retries
             /\ RunFinished(r) =>
                   DagRunState(r) = "failed" /\ Outcome(r) = "aborted"

C9_Witness ==
    \E r \in Runs :
       /\ ti[r][task_collect] = "failed"
       /\ try_number[r][task_collect] = 1 + retries
       /\ Outcome(r) = "aborted"

\* C10 as stated: when models/best_model.pkl is missing at
\* deploy_to_staging the step does not raise (it is neither retried nor
\* failed), send_drift_alert is not held back and the run is not failed.
C10_DeploySkippedNotFailed ==
    \A r \in Runs :
       artifact_missing[r] =>
          /\ ti[r][task_deploy] \notin {"up_for_retry", "failed"}
          /\ ti[r][task_alert] # "upstream_failed"
          /\ DagRunState(r) # "failed"

\* C11: a failure stays within its run.  Whatever the states of the runs
\* created so far (in progress, failed, aborted), the schedule can fire the
\* next run, and the first task of every created run can start without
\* regard to any other run: nothing of an earlier run is among its
\* dependencies.
C11_BlastRadius ==
    /\ nRuns < MaxRuns => ENABLED ScheduleFires
    /\ \A r \in Runs :
          Created(r) =>
             /\ DepStatus(r, task_collect) = "run"
             /\ ti[r][task_collect] = "none" =>
                   ENABLED StartTask(r, task_collect)
             /\ ti[r][task_collect] # "upstream_failed"

C11_Witness ==
    \E r1, r2 \in Runs :
       /\ r1 < r2
       /\ Outcome(r1) \in {"aborted", "failed"}
       /\ Outcome(r2) = "completed_retrained"

\* C12 as stated: every finished run is in exactly one of four cases:
\* aborted (data collection failed on every attempt), skipped_no_reference
\* (reference missing), completed_no_drift (drift detection ran, verdict
\* False), completed_retrained (verdict True, Retraining-branch concluded).
C12_AsStated ==
    \A r \in Runs :
       RunFinished(r) =>
          \/ ti[r][task_collect] = "failed"
          \/ DagRunState(r) = "success" /\ ref_missing[r]
          \/ DagRunState(r) = "success" /\ engine_called[r] /\ xcom[r] = "False"
          \/ DagRunState(r) = "success" /\ xcom[r] = "True"
                /\ ti[r][task_alert] = "success"

\* C12 (amended): every finished run has exactly one outcome among aborted,
\* failed, skipped_no_reference, completed_no_drift and completed_retrained:
\* aborted exactly when collect_recent_data failed on every attempt; failed
\* exactly when detect_drift or a step of the Retraining-branch did;
\* skipped_no_reference exactly when detect_drift found no reference (no
\* verdict recorded); completed_no_drift exactly when detect_data_drift was
\* called and the verdict is False; completed_retrained exactly when the
\* verdict is True and send_drift_alert has succeeded.
C12_Outcomes ==
    \A r \in Runs :
       RunFinished(r) =>
          LET aborted   == ti[r][task_collect] = "failed"
              failed    == \E t \in {task_drift} \cup RetrainBranch :
                              ti[r][t] = "failed"
              noref     == ref_missing[r]
              nodrift   == engine_called[r] /\ xcom[r] = "False"
              retrained == xcom[r] = "True" /\ ti[r][task_alert] = "success"
              cases     == <<aborted, failed, noref, nodrift, retrained>>
          IN
          /\ Cardinality({i \in 1..5 : cases[i]}) = 1
          /\ (Outcome(r) = "aborted") <=> aborted
          /\ (Outcome(r) = "failed") <=> failed
          /\ (Outcome(r) = "skipped_no_reference") <=> noref
          /\ (Outcome(r) = "completed_no_drift") <=> nodrift
          /\ (Outcome(r) = "completed_retrained") <=> retrained
          /\ (DagRunState(r) = "failed") <=> (aborted \/ failed)
          /\ noref => xcom[r] = "absent"

C12_Witness ==
    \E r1, r2 \in Runs :
       /\ Outcome(r1) = "completed_no_drift"
       /\ Outcome(r2) = "failed"
       /\ ti[r2][task_collect] = "success"

(***************************************************************************)
(* Properties of the drift analysis                                        *)
(***************************************************************************)

\* The last call was detect_data_drift and it returned a report.
Reported == call.op = "detect_data_drift" /\ call.raised = ""

\* The last detect_data_drift call went through _simple_drift_detection.
FallbackUsed ==
    /\ call.op = "detect_data_drift"
    /\ ~EVIDENTLY_AVAILABLE \/ call.evidently.raised # ""

\* Positions of feature_columns whose name is a column of both tables.
InBoth(feature_columns) ==
    {i \in 1..Len(feature_columns) :
        feature_columns[i] \in reference_columns \cap current_columns}

\* The names in a list.
Range(feature_columns) ==
    {feature_columns[i] : i \in 1..Len(feature_columns)}

\* C13: every report returned by detect_data_drift, under either strategy,
\* has drift_detected exactly when drift_share is strictly greater than the
\* threshold, the threshold being the instance's and the report's threshold
\* field.
C13_Verdict ==
    Reported =>
       /\ call.ret.threshold = drift_threshold
       /\ call.ret.drift_detected <=>
             (call.ret.drift_share[1] * drift_threshold[2]
                 > drift_threshold[1] * call.ret.drift_share[2])
       /\ drift_detected = call.ret.drift_detected

\* A report of the Evidently strategy whose drift_share equals the threshold.
C13_Witness ==
    /\ Reported
    /\ "method" \notin DOMAIN call.ret
    /\ call.ret.drift_share = call.ret.threshold
    /\ ~call.ret.drift_detected

C15_IntersectionOnly ==
    Reported /\ FallbackUsed =>
       LET n == Cardinality(InBoth(call.feature_columns)) IN
       /\ call.ret.n_features = n
       /\ call.ret.drift_share =
             IF n = 0 THEN Zero ELSE Div(call.ret.n_drifted_features, n)
       /\ \A col \in Names \ (reference_columns \cap current_columns) :
             /\ col \notin DOMAIN call.ret.drift_scores
             /\ col \notin Range(call.ret.drifted_features)

\* C16 as stated: when Evidently is unavailable or raises, no exception
\* reaches the caller and the report returned is tagged method = "fallback".
C16_AsStated ==
    FallbackUsed =>
       /\ call.raised = ""
       /\ call.ret.method = "fallback"

\* C16 (amended): when Evidently is unavailable or raises, the exception of
\* the Evidently part never reaches the caller: _simple_drift_detection
\* runs, and the call returns its report, tagged method = "ks_test" and
\* carrying the per-feature results, unless ks_2samp itself raises
\* ValueError on an empty sample, which reaches the caller.
C16_Degradation ==
    FallbackUsed =>
       IF "empty" \in Range(call.feature_columns)
          /\ ks_2samp_empty = "ValueError"
       THEN call.raised = "ValueError"
       ELSE /\ call.raised = ""
            /\ call.ret.method = "ks_test"
            /\ DOMAIN call.ret.drift_scores =
                  Range(call.feature_columns)
                     \cap reference_columns \cap current_columns

\* Evidently raised and the call returned the ks_test report.
C16_Witness ==
    /\ call.op = "detect_data_drift"
    /\ EVIDENTLY_AVAILABLE
    /\ call.evidently.raised = "Exception"
    /\ call.raised = ""
    /\ call.ret.method = "ks_test"
    /\ call.ret.drift_detected

\* C17: the report has the same fields whichever strategy produced it:
\* timestamp, drift_detected, drift_share, n_drifted_features, n_features,
\* the per-feature results, threshold and method.
C17_SameFields ==
    Reported =>
       DOMAIN call.ret =
          {"timestamp", "drift_detected", "drift_share",
           "n_drifted_features", "n_features", "drifted_features",
           "drift_scores", "threshold", "method"}

\* C18: a compared feature with an empty sample makes the comparison fail
\* with InsufficientDataError, and no statistic, p-value or drift flag is
\* produced for it.
C18_InsufficientData ==
    FallbackUsed /\ "empty" \in Range(call.feature_columns) =>
       call.raised = "InsufficientDataError"

\* C19: the threshold of the instance, and of every report, is the value
\* given at construction, 0 included; the configured default only when
\* none was given.
C19_Override ==
    instance.class = "DriftMonitor" =>
       LET t == IF instance.drift_threshold = None
                THEN Config_DRIFT_THRESHOLD
                ELSE instance.drift_threshold
       IN /\ drift_threshold = t
          /\ Reported => call.ret.threshold = t

\* The alerts in existence: the history and the alert just returned.
Alerts ==
    {alerts[i] : i \in 1..Len(alerts)}
       \cup (IF call.op = "create_alert" THEN {call.ret} ELSE {})

\* C20: every alert has severity high exactly when the drift_share of the
\* report it was made from is strictly greater than 0.3, medium otherwise.
C20_Severity ==
    \A alert \in Alerts :
       /\ alert.severity \in {"high", "medium"}
       /\ alert.severity = "high" <=>
             alert.details.drift_share[1] * 10
                > 3 * alert.details.drift_share[2]

\* An alert for a drift_share of exactly 0.3 next to a history with a high one.
C20_Witness ==
    /\ call.op = "create_alert"
    /\ call.ret.details.drift_share = Div(3, 10)
    /\ call.ret.severity = "medium"
    /\ \E i \in 1..Len(alerts) : alerts[i].severity = "high"

(***************************************************************************)
(* Properties of the DriftDetector and of the monitor's stored state       *)
(***************************************************************************)

\* A step that is a check_drift call / a detect_data_drift call (the call
\* record of the state after names the operation and its argument).
CheckDriftStep ==
    call'.op = "check_drift" /\ check_drift(call'.feature_columns)

DetectDataDriftStep ==
    call'.op = "detect_data_drift" /\ detect_data_drift(call'.feature_columns)

\* s is a prefix of t.
IsPrefix(s, t) == Len(s) <= Len(t) /\ SubSeq(t, 1, Len(s)) = s

\* The last call was check_drift and it returned.
Checked == call.op = "check_drift" /\ call.raised = ""

\* C21: a check_drift call whose report has drift_detected true appends
\* exactly one alert, made from that report, and returns action_required
\* true; one whose report has drift_detected false leaves the history as it
\* was and returns action_required false.
C21_OneAlert ==
    [][(call'.op = "check_drift" /\ call'.raised = "" /\ CheckDriftStep) =>
          LET report == call'.ret.drift_report IN
          IF report.drift_detected
          THEN /\ Len(alerts') = Len(alerts) + 1
               /\ IsPrefix(alerts, alerts')
               /\ alerts'[Len(alerts')].details = report
               /\ call'.ret.action_required = TRUE
          ELSE /\ alerts' = alerts
               /\ call'.ret.action_required = FALSE]_vars

\* The first call with drift: one alert, made from its report.
C21_Witness ==
    /\ Checked
    /\ call.ret.action_required
    /\ Len(alerts) = 1
    /\ n_action_required = 1
    /\ alerts[1].details = call.ret.drift_report

\* C22: the alert history is append-only: in every step on a DriftDetector
\* the history before is a prefix of the history after, so no alert in it,
\* nor the report stored in it, is modified or removed.
C22_AppendOnly ==
    [][instance.class = "DriftDetector" => IsPrefix(alerts, alerts')]_vars

\* Two different alerts, the first still there after the second call.
C22_Witness ==
    /\ Checked
    /\ Len(alerts) = 2
    /\ alerts[1].details # alerts[2].details
    /\ alerts[2].details = call.ret.drift_report

\* C23: the metrics exported are those of the most recent report only:
\* drift_detected as 1 or 0, drift_share and n_drifted_features of the
\* report the last successful call returned.
C23_LatestOnly ==
    /\ Checked =>
          export_metrics_for_prometheus =
             [drift_detected |->
                 IF call.ret.drift_report.drift_detected THEN 1 ELSE 0,
              drift_share |-> call.ret.drift_report.drift_share,
              n_drifted_features |->
                 call.ret.drift_report.n_drifted_features]
    /\ instance.class = "DriftDetector" /\ Reported =>
          export_metrics_for_prometheus =
             [drift_detected |-> IF call.ret.drift_detected THEN 1 ELSE 0,
              drift_share |-> call.ret.drift_share,
              n_drifted_features |-> call.ret.n_drifted_features]

\* The latest report has no drift, an earlier one (in the history) had.
C23_Witness ==
    /\ Checked
    /\ ~call.ret.drift_report.drift_detected
    /\ Len(alerts) >= 1
    /\ alerts[1].details.drift_share # call.ret.drift_report.drift_share
    /\ export_metrics_for_prometheus.drift_detected = 0

C25_WholeHistory ==
    Checked =>
       /\ call.ret.alerts = alerts
       /\ Len(call.ret.alerts) = n_action_required
       /\ ~call.ret.action_required /\ n_action_required > 0 =>
             call.ret.alerts # <<>>

\* A call without drift that returns the alert of an earlier call.
C25_Witness ==
    /\ Checked
    /\ ~call.ret.action_required
    /\ Len(call.ret.alerts) = 1

\* C26: the history is as long as the number of check_drift calls that
\* returned action_required true, and every alert in it carries a report
\* with drift_detected true and drift_share strictly above its threshold.
C26_HistoryCount ==
    instance.class = "DriftDetector" =>
       /\ Len(alerts) = n_action_required
       /\ \A i \in 1..Len(alerts) :
             LET report == alerts[i].details IN
             /\ report.drift_detected = TRUE
             /\ report.drift_share[1] * report.threshold[2]
                   > report.threshold[1] * report.drift_share[2]

\* Two alerts after two calls with drift, then a call without.
C26_Witness ==
    /\ Checked
    /\ ~call.ret.action_required
    /\ n_action_required = 2
    /\ Len(alerts) = 2

\* C27: a check_drift or detect_data_drift call that raises leaves the alert
\* history, the stored report and the drift_detected flag as they were, so
\* should_retrain and the exported metrics keep reporting the report of the
\* last successful call.
C27_FailureKeepsState ==
    [][(call'.op \in {"check_drift", "detect_data_drift"}
          /\ call'.raised # ""
          /\ (CheckDriftStep \/ DetectDataDriftStep)) =>
          /\ alerts' = alerts
          /\ drift_report' = drift_report
          /\ drift_detected' = drift_detected]_vars

\* A call rejected by ks_2samp after a call that detected drift.
C27_Witness ==
    /\ call.op = "check_drift"
    /\ call.raised = "ValueError"
    /\ drift_report # EmptyDict
    /\ should_retrain
    /\ Len(alerts) = 1
    /\ export_metrics_for_prometheus.drift_detected = 1

\* C28: should_retrain is the drift_detected field of the stored report
\* while there is one and False while there is none;
\* export_metrics_for_prometheus returns {} exactly while there is none and
\* the three keys otherwise.
C28_FlagMatchesReport ==
    instance.class # "none" =>
       IF drift_report = EmptyDict
       THEN /\ should_retrain = FALSE
            /\ DOMAIN export_metrics_for_prometheus = {}
       ELSE /\ should_retrain = drift_report.drift_detected
            /\ DOMAIN export_metrics_for_prometheus =
                  {"drift_detected", "drift_share", "n_drifted_features"}

\* No report yet although a call has been made (it raised).
C28_Witness ==
    /\ instance.class = "DriftDetector"
    /\ call.op = "check_drift"
    /\ call.raised # ""
    /\ drift_report = EmptyDict
    /\ export_metrics_for_prometheus = EmptyDict

\* C29: detect_prediction_drift assigns nothing of the monitor: the stored
\* report, the drift_detected flag (so should_retrain and the exported
\* metrics) and the alert history are unchanged by it.
C29_PredictionDriftFrame ==
    [][(\E p \in PredictionPairs : detect_prediction_drift(p)) =>
          /\ drift_report' = drift_report
          /\ drift_detected' = drift_detected
          /\ alerts' = alerts
          /\ drift_threshold' = drift_threshold]_vars

\* Prediction drift detected while the stored report says no drift.
C29_Witness ==
    /\ call.op = "detect_prediction_drift"
    /\ call.raised = ""
    /\ call.ret.drift_detected
    /\ drift_report # EmptyDict
    /\ ~should_retrain
    /\ export_metrics_for_prometheus.drift_detected = 0

(***************************************************************************)
(* Failure inside the retraining branch                                    *)
(***************************************************************************)

\* C30: evaluate_new_model and deploy_to_staging are attempted at most
\* 1 + retries times; when one of them has failed (raised on every attempt)
\* no later step of the branch is ever started in that run:
\* send_drift_alert is not invoked, and 'end' does not succeed, so the run
\* does not end in success.
C30_BranchFailureStops ==
    \A r \in Runs :
       /\ \A t \in {task_evaluate, task_deploy} :
             /\ try_number[r][t] <= 1 + retries
             /\ ti[r][t] = "failed" => try_number[r][t] = 1 + retries
       /\ ti[r][task_evaluate] = "failed" =>
             /\ try_number[r][task_deploy] = 0
             /\ ti[r][task_deploy] \in {"none", "upstream_failed"}
       /\ ti[r][task_evaluate] = "failed" \/ ti[r][task_deploy] = "failed" =>
             /\ try_number[r][task_alert] = 0
             /\ ti[r][task_alert] \in {"none", "upstream_failed"}
             /\ try_number[r][task_end] = 0
             /\ ti[r][task_end] \in {"none", "upstream_failed"}
             /\ DagRunState(r) # "success"

\* A finished run whose deploy_to_staging failed after evaluate_new_model
\* succeeded, next to one whose evaluate_new_model failed.
C30_Witness ==
    \E r1, r2 \in Runs :
       /\ ti[r1][task_deploy] = "failed"
       /\ ti[r1][task_evaluate] = "success"
       /\ DagRunState(r1) = "failed"
       /\ ti[r2][task_evaluate] = "failed"
       /\ ti[r2][task_end] = "upstream_failed"

====
